---- MODULE Spec2Model ----
(***************************************************************************)
(* A model of wordle.py: the constraint classes (Green, Yellow,            *)
(* NoLetterPresent, LetterNotRepeated) and the WordleShell object, whose   *)
(* state is self.words (the candidate list) and self.constraints (the      *)
(* history).  A Python str is the sequence of the code points of its       *)
(* characters, so that `in`, `count`, `lower` and `split` are computed as  *)
(* Python computes them, on every character.                               *)
(* The shell is modelled as an object: a command that raises leaves the    *)
(* object as the raise found it, and the caller may call it again; every   *)
(* method of the class that the source defines can be called.              *)
(***************************************************************************)
EXTENDS Integers, Sequences, FiniteSets

VARIABLES
    words,          \* self.words
    constraints,    \* self.constraints
    lastcmd,        \* the last command given: [cmd, arg]
    out,            \* what the last command printed or raised
    words0,         \* self.words as the last command found it
    constraints0,   \* self.constraints as the last command found it
    made,           \* the last direct constructor call: its arguments and result
    ncalls          \* the number of commands given so far

vars == <<words, constraints, lastcmd, out, words0, constraints0, made, ncalls>>

(***************************************************************************)
(* Bounds.                                                                 *)
(***************************************************************************)
MaxCalls == 2

(***************************************************************************)
(* Python str operations.                                                  *)
(***************************************************************************)
\* chr(32) to chr(95) and chr(97) to chr(126): the printable characters of
\* ASCII but chr(96), which no string of TLA+ holds
PrintableLow ==
    <<
       " ", "!", "\"", "#", "$", "%", "&", "'", "(", ")", "*", "+", ",", "-", ".", "/",
       "0", "1", "2", "3", "4", "5", "6", "7", "8", "9", ":", ";", "<", "=", ">", "?",
       "@", "A", "B", "C", "D", "E", "F", "G", "H", "I", "J", "K", "L", "M", "N", "O",
       "P", "Q", "R", "S", "T", "U", "V", "W", "X", "Y", "Z", "[", "\\", "]", "^", "_" >>

PrintableHigh ==
    <<
       "a", "b", "c", "d", "e", "f", "g", "h", "i", "j", "k", "l", "m", "n", "o", "p",
       "q", "r", "s", "t", "u", "v", "w", "x", "y", "z", "{", "|", "}", "~" >>

Index(seq, x) == CHOOSE i \in 1..Len(seq) : seq[i] = x

\* ord(ch) for a printable character of ASCII
Ord(ch) ==
    IF \E i \in 1..Len(PrintableLow) : PrintableLow[i] = ch
    THEN Index(PrintableLow, ch) + \h1F
    ELSE Index(PrintableHigh, ch) + \h60

\* the str whose characters are those of lit, a tuple of printable characters
Str(lit) == [k \in 1..Len(lit) |-> Ord(lit[k])]

\* string.ascii_letters
AsciiLetters ==
    Str(<< "a","b","c","d","e","f","g","h","i","j","k","l","m",
           "n","o","p","q","r","s","t","u","v","w","x","y","z",
           "A","B","C","D","E","F","G","H","I","J","K","L","M",
           "N","O","P","Q","R","S","T","U","V","W","X","Y","Z" >>)

\* the uppercase letters are the second half of string.ascii_letters
CaseOffset == Len(AsciiLetters) \div 2

\* `s in t` for two str: s occurs in t as a contiguous substring
IsSubstr(s, t) ==
    \E i \in 0..(Len(t) - Len(s)) : \A k \in 1..Len(s) : t[i + k] = s[k]

\* ch.lower() for one character
LowerChar(ch) ==
    IF \E i \in (CaseOffset + 1)..Len(AsciiLetters) : AsciiLetters[i] = ch
    THEN AsciiLetters[(CHOOSE i \in (CaseOffset + 1)..Len(AsciiLetters) :
                          AsciiLetters[i] = ch) - CaseOffset]
    ELSE ch

\* s.lower()
Lower(s) == [k \in 1..Len(s) |-> LowerChar(s[k])]

\* t.count(s): the number of non-overlapping occurrences of s in t
RECURSIVE CountFrom(_, _, _)
CountFrom(t, s, p) ==
    IF p + Len(s) - 1 > Len(t) THEN 0
    ELSE IF \A k \in 1..Len(s) : t[p + k - 1] = s[k]
         THEN 1 + CountFrom(t, s, p + Len(s))
         ELSE CountFrom(t, s, p + 1)

Count(t, s) == IF Len(s) = 0 THEN Len(t) + 1 ELSE CountFrom(t, s, 1)

\* the characters at which str.split() splits, those for which str.isspace()
\* holds, by code point: tab to carriage return, the four separators before
\* the space, the space, next line, no-break space, and the blanks of Unicode
Whitespace ==
    (\h0009..\h000D) \cup (\h001C..\h0020) \cup {\h0085, \h00A0, \h1680}
        \cup (\h2000..\h200A) \cup {\h2028, \h2029, \h202F, \h205F, \h3000}

\* "\n"
Newline == <<\h000A>>

\* sep.join(strs)
RECURSIVE Join(_, _)
Join(strs, sep) ==
    IF strs = <<>> THEN <<>>
    ELSE IF Len(strs) = 1 THEN strs[1]
    ELSE strs[1] \o sep \o Join(Tail(strs), sep)

\* arg.split(): the maximal runs of non-blank characters, in order
RECURSIVE SplitFrom(_, _, _)
SplitFrom(arg, p, cur) ==
    IF p > Len(arg)
    THEN IF cur = <<>> THEN <<>> ELSE <<cur>>
    ELSE IF arg[p] \in Whitespace
         THEN (IF cur = <<>> THEN <<>> ELSE <<cur>>) \o SplitFrom(arg, p + 1, <<>>)
         ELSE SplitFrom(arg, p + 1, Append(cur, arg[p]))

Split(arg) == SplitFrom(arg, 1, <<>>)

(***************************************************************************)
(* The constraint classes.  A constructor returns [ok |-> TRUE, c |-> the  *)
(* object] or [ok |-> FALSE, msg, tok] for the ValueError it raises.       *)
(***************************************************************************)
\* the word length the program is written for
W == 5

Raise(msg, tok, pos) == [ok |-> FALSE, msg |-> msg, tok |-> tok, pos |-> pos]

\* BasePositionalConstraint.__init__, for type in {Green, Yellow}
BasePositionalConstraint(type, index, letter) ==
    IF index \notin 0..(W - 1)
    THEN Raise("index out of bounds", <<>>, index)
    ELSE IF ~IsSubstr(letter, AsciiLetters)
    THEN Raise("is not a valid letter", letter, -1)
    ELSE [ok |-> TRUE,
          c |-> [type |-> type, index |-> index, letter |-> Lower(letter)]]

\* BaseNonPositionalConstraint.__init__, for type in {NoLetterPresent, LetterNotRepeated}
BaseNonPositionalConstraint(type, letter) ==
    IF ~IsSubstr(letter, AsciiLetters)
    THEN Raise("is not a valid letter", letter, -1)
    ELSE [ok |-> TRUE, c |-> [type |-> type, letter |-> Lower(letter)]]

GreenConstraint(index, letter) ==
    BasePositionalConstraint("GreenConstraint", index, letter)

YellowConstraint(index, letter) ==
    BasePositionalConstraint("YellowConstraint", index, letter)

NoLetterPresentConstraint(letter) ==
    BaseNonPositionalConstraint("NoLetterPresentConstraint", letter)

LetterNotRepeatedConstraint(letter) ==
    BaseNonPositionalConstraint("LetterNotRepeatedConstraint", letter)

IsPositional(c) == c.type \in {"GreenConstraint", "YellowConstraint"}

\* word[index] of a Python str, for index in 0..len(word)-1
At(word, index) == <<word[index + 1]>>

GreenMatches(c, word) == At(word, c.index) = c.letter

YellowMatches(c, word) ==
    IsSubstr(c.letter, word) /\ At(word, c.index) # c.letter

NoLetterPresentMatches(c, word) == ~IsSubstr(c.letter, word)

LetterNotRepeatedMatches(c, word) == Count(word, c.letter) < 2

\* constraint.matches(word), dispatched on the class
Matches(c, word) ==
    CASE c.type = "GreenConstraint" -> GreenMatches(c, word)
      [] c.type = "YellowConstraint" -> YellowMatches(c, word)
      [] c.type = "NoLetterPresentConstraint" -> NoLetterPresentMatches(c, word)
      [] c.type = "LetterNotRepeatedConstraint" -> LetterNotRepeatedMatches(c, word)

(***************************************************************************)
(* The word list.                                                          *)
(***************************************************************************)
sassy == Str(<<"s","a","s","s","y">>)
SASSY == Str(<<"S","A","S","S","Y">>)
sa5sy == Str(<<"s","a","5","s","y">>)
shirt == Str(<<"s","h","i","r","t">>)
shuts == Str(<<"s","h","u","t","s">>)
miser == Str(<<"m","i","s","e","r">>)
daisy == Str(<<"d","a","i","s","y">>)
party == Str(<<"p","a","r","t","y">>)
salty == Str(<<"s","a","l","t","y">>)
spoke == Str(<<"s","p","o","k","e">>)
mound == Str(<<"m","o","u","n","d">>)
tiger == Str(<<"t","i","g","e","r">>)

\* the word list the shell is constructed with
Dictionary ==
    <<shirt, sassy, miser, shuts, daisy, party, salty, spoke, mound, tiger, shirt>>

(***************************************************************************)
(* WordleShell.  A shell state is [words, constraints].                    *)
(***************************************************************************)
\* apply_new_constraint with the append left out
ApplyNewConstraintNoAppend(st, c) ==
    [words |-> SelectSeq(st.words, LAMBDA w : Matches(c, w)),
     constraints |-> st.constraints]

\* apply_new_constraint filtering the full word list instead of self.words
ApplyNewConstraintFromDictionary(st, c) ==
    [words |-> SelectSeq(Dictionary, LAMBDA w : Matches(c, w)),
     constraints |-> Append(st.constraints, c)]

\* a list without its repeated elements, each kept where it first occurs
RECURSIVE Distinct(_)
Distinct(seq) ==
    IF seq = <<>> THEN <<>>
    ELSE LET front == Distinct(SubSeq(seq, 1, Len(seq) - 1))
             last == seq[Len(seq)]
         IN  IF \E k \in 1..Len(front) : front[k] = last
             THEN front
             ELSE Append(front, last)

\* apply_new_constraint keeping each surviving word once
ApplyNewConstraintDistinct(st, c) ==
    [words |-> Distinct(SelectSeq(st.words, LAMBDA w : Matches(c, w))),
     constraints |-> Append(st.constraints, c)]

\* apply_new_constraint putting the constraint at the head of the history
ApplyNewConstraintAtHead(st, c) ==
    [words |-> SelectSeq(st.words, LAMBDA w : Matches(c, w)),
     constraints |-> <<c>> \o st.constraints]

\* apply_new_constraint: append to the history, filter the candidates
ApplyNewConstraint(st, c) ==
    [words |-> SelectSeq(st.words, LAMBDA w : Matches(c, w)),
     constraints |-> Append(st.constraints, c)]

\* the condition of line 131: some Green or Yellow constraint of the history
\* has c.letter == letter, letter being the guess's character as typed
SeenPresent(history, letter) ==
    \E k \in 1..Len(history) :
        history[k].letter = letter /\ IsPositional(history[k])

\* the hint characters of do_word
HintGreen == Ord("g")
HintYellow == Ord("y")
HintGrey == Ord("_")

\* the "_" branch of do_word with its condition negated
GreyConstraintNegated(history, letter) ==
    IF ~SeenPresent(history, letter)
    THEN LetterNotRepeatedConstraint(letter)
    ELSE NoLetterPresentConstraint(letter)

\* the "_" branch of do_word
GreyConstraint(history, letter) ==
    IF SeenPresent(history, letter)
    THEN LetterNotRepeatedConstraint(letter)
    ELSE NoLetterPresentConstraint(letter)

\* the if/elif chain of do_word reporting positions counted from 1
DeriveConstraintFromOne(history, i, letter, constraint_type) ==
    CASE constraint_type = HintGreen -> GreenConstraint(i, letter)
      [] constraint_type = HintYellow -> YellowConstraint(i, letter)
      [] constraint_type = HintGrey -> GreyConstraint(history, letter)
      [] OTHER -> Raise("invalid hint type", <<constraint_type>>, i + 1)

\* the constraint do_word builds for position i, or the ValueError raised
DeriveConstraint(history, i, letter, constraint_type) ==
    CASE constraint_type = HintGreen -> GreenConstraint(i, letter)
      [] constraint_type = HintYellow -> YellowConstraint(i, letter)
      [] constraint_type = HintGrey -> GreyConstraint(history, letter)
      [] OTHER -> Raise("invalid hint type", <<constraint_type>>, i)

\* exc, msg, tok, pos: the exception raised, if any; count: the number
\* printed after "remaining: "; text: the characters do_possible prints;
\* debug: what the calls of apply_new_constraint printed, in order
NoOutput == [exc |-> "", msg |-> "", tok |-> <<>>, pos |-> -1,
             count |-> -1, text |-> <<>>, debug |-> <<>>]

\* the two [DEBUG] lines of apply_new_constraint(c), st being the state it
\* leaves: the constraint printed and the number printed after "#"
Debug(c, st) == [constraint |-> c, count |-> Len(st.words)]

\* out with what an earlier apply_new_constraint(c) printed put before it
AfterDebug(c, st, o) == [o EXCEPT !.debug = <<Debug(c, st)>> \o @]

ValueError(msg, tok, pos) ==
    [NoOutput EXCEPT !.exc = "ValueError", !.msg = msg, !.tok = tok, !.pos = pos]

\* the loop of do_word with every position validated before the first is applied
RECURSIVE WordLoopValidatedFirst(_, _, _, _)
WordLoopValidatedFirst(st, word, hints, i) ==
    LET bad == {k \in 0..(W - 1) :
                   ~DeriveConstraint(<<>>, k, At(word, k), hints[k + 1]).ok}
        first == CHOOSE k \in bad : \A m \in bad : k <= m
        e == DeriveConstraint(<<>>, first, At(word, first), hints[first + 1])
    IN  IF i = 0 /\ bad # {}
        THEN [st |-> st, out |-> ValueError(e.msg, e.tok, e.pos)]
        ELSE IF i = W
        THEN [st |-> st, out |-> [NoOutput EXCEPT !.count = Len(st.words)]]
        ELSE LET r == DeriveConstraint(st.constraints, i, At(word, i), hints[i + 1])
                 next == ApplyNewConstraint(st, r.c)
                 rest == WordLoopValidatedFirst(next, word, hints, i + 1)
             IN  [st |-> rest.st, out |-> AfterDebug(r.c, next, rest.out)]

\* the loop of do_word from position i on, and the final print
RECURSIVE WordLoop(_, _, _, _)
WordLoop(st, word, hints, i) ==
    IF i = W
    THEN [st |-> st, out |-> [NoOutput EXCEPT !.count = Len(st.words)]]
    ELSE LET r == DeriveConstraint(st.constraints, i, At(word, i), hints[i + 1])
             next == ApplyNewConstraint(st, r.c)
             rest == WordLoop(next, word, hints, i + 1)
         IN  IF r.ok
             THEN [st |-> rest.st, out |-> AfterDebug(r.c, next, rest.out)]
             ELSE [st |-> st, out |-> ValueError(r.msg, r.tok, r.pos)]

\* the length checks of do_word written with < for !=
CheckedWordTooShort(st, word, hints) ==
    IF Len(word) < W
    THEN [st |-> st, out |-> ValueError("word should be 5 chars long", word, -1)]
    ELSE IF Len(hints) < W
    THEN [st |-> st, out |-> ValueError("hints should be 5 chars long", hints, -1)]
    ELSE WordLoop(st, word, hints, 0)

\* the length checks of do_word, then the loop
CheckedWord(st, word, hints) ==
    IF Len(word) # W
    THEN [st |-> st, out |-> ValueError("word should be 5 chars long", word, -1)]
    ELSE IF Len(hints) # W
    THEN [st |-> st, out |-> ValueError("hints should be 5 chars long", hints, -1)]
    ELSE WordLoop(st, word, hints, 0)

\* do_word(arg): the state it leaves and what it prints or raises
DoWord(st, arg) ==
    LET toks == Split(arg)
    IN  IF Len(toks) < 2
        THEN [st |-> st, out |-> ValueError("not enough values to unpack", arg, -1)]
        ELSE IF Len(toks) > 2
        THEN [st |-> st, out |-> ValueError("too many values to unpack", arg, -1)]
        ELSE CheckedWord(st, toks[1], toks[2])

\* do_status: prints the number of candidates
DoStatus(st) == [NoOutput EXCEPT !.count = Len(st.words)]

\* do_possible printing the word list the shell was made with
DoPossibleWholeList(st) ==
    [NoOutput EXCEPT !.text = Join(Dictionary, Newline) \o Newline]

\* do_possible: prints "\n".join(self.words), and print ends the line
DoPossible(st) ==
    [NoOutput EXCEPT !.text = Join(st.words, Newline) \o Newline]

\* apply_new_constraint(c) called by itself
DoApply(st, c) ==
    LET next == ApplyNewConstraint(st, c)
    IN  [st |-> next, out |-> AfterDebug(c, next, NoOutput)]

\* do_exit and do_EOF: sys.exit(0) raises SystemExit
DoExit(st) == [NoOutput EXCEPT !.exc = "SystemExit"]

(***************************************************************************)
(* Inputs.                                                                 *)
(***************************************************************************)
GuessWords == {sassy, SASSY, sa5sy, shirt}

\* a character that is no hint character
HintOther == Ord("x")

\* the three hint characters, and one that is none of them
HintChars == {HintGreen, HintYellow, HintGrey, HintOther}

AllGrey == [k \in 1..W |-> HintGrey]

\* hints that differ from all grey at the positions of ps only
HintsOn(ps) ==
    {h \in [1..W -> HintChars] : \A k \in 1..W : k \notin ps => h[k] = HintGrey}

\* hints with more than one character that is no hint character
TwiceInvalid == { Str(<<"g","x","y","y","x">>), Str(<<"_","x","_","x","_">>) }

Hints ==
    UNION {HintsOn({k}) : k \in 1..W}
        \cup {[k \in 1..W |-> HintGreen]}
        \cup TwiceInvalid

\* " "
Space == Str(<<" ">>)

Line(word, hints) == word \o Space \o hints

\* command lines that do not hold one W-letter word and one W-letter hint string
Malformed ==
    { <<>>,
      sassy,
      Line(sassy, AllGrey) \o Space \o AllGrey,
      Line(SubSeq(sassy, 1, 4), Str(<<"g","_","y","y","_">>)),
      Line(sassy, SubSeq(AllGrey, 1, 4)),
      Line(sassy, AllGrey \o Str(<<"g">>)),
      Line(sassy \o Str(<<"y">>), AllGrey) }

\* a guess and its hints set apart and followed by blanks other than " ":
\* a carriage return; a space, a vertical tab and a tab, then a unit
\* separator and a newline; an em space, then a next line
OtherBlanks ==
    { sassy \o <<\h000D>> \o Str(<<"g","_","_","_","_">>),
      sassy \o <<\h0020, \h000B, \h0009>> \o AllGrey \o <<\h001F, \h000A>>,
      sassy \o <<\h2003>> \o Str(<<"g","_","_","_","_">>) \o <<\h0085>> }

Args ==
    {Line(w, h) : w \in GuessWords, h \in Hints}
        \cup { Space \o Line(sassy, Str(<<"g","_","_","_","_">>)) \o Space }
        \cup OtherBlanks
        \cup Malformed

ConstraintTypes ==
    {"GreenConstraint", "YellowConstraint",
     "NoLetterPresentConstraint", "LetterNotRepeatedConstraint"}

PositionalTypes == {"GreenConstraint", "YellowConstraint"}

\* index arguments: every valid one and one on either side
Indices == -1..W

\* letter arguments: single characters of each kind, the empty str, longer str
Letters ==
    { Str(<<"a">>), Str(<<"Z">>), Str(<<"5">>), Space, <<>>,
      Str(<<"a","b">>), Str(<<"z","A">>), Str(<<"a","5">>) }

\* type(index, letter) or type(letter)
Construct(type, index, letter) ==
    CASE type = "GreenConstraint" -> GreenConstraint(index, letter)
      [] type = "YellowConstraint" -> YellowConstraint(index, letter)
      [] type = "NoLetterPresentConstraint" -> NoLetterPresentConstraint(letter)
      [] type = "LetterNotRepeatedConstraint" -> LetterNotRepeatedConstraint(letter)

\* the constraint objects given to apply_new_constraint directly: one of each
\* class, one made from an uppercase letter and one made from the empty str
Constraints ==
    { LetterNotRepeatedConstraint(Str(<<"s">>)).c,
      YellowConstraint(4, Str(<<"t">>)).c,
      GreenConstraint(0, Str(<<"S">>)).c,
      NoLetterPresentConstraint(Str(<<"a">>)).c,
      NoLetterPresentConstraint(<<>>).c }

(***************************************************************************)
(* The state machine.                                                      *)
(***************************************************************************)
State == [words |-> words, constraints |-> constraints]

NotMade == [called |-> FALSE]

\* WordleShell.__init__
Init ==
    /\ words = Dictionary
    /\ constraints = <<>>
    /\ lastcmd = [cmd |-> "init", arg |-> <<>>]
    /\ out = NoOutput
    /\ words0 = Dictionary
    /\ constraints0 = <<>>
    /\ made = NotMade
    /\ ncalls = 0

Snapshot ==
    /\ words0' = words
    /\ constraints0' = constraints
    /\ ncalls' = ncalls + 1
    /\ made' = made

do_word ==
    /\ ncalls < MaxCalls
    /\ \E arg \in Args :
          \E r \in {DoWord(State, arg)} :
              /\ words' = r.st.words
              /\ constraints' = r.st.constraints
              /\ out' = r.out
              /\ lastcmd' = [cmd |-> "word", arg |-> arg]
    /\ Snapshot

do_status ==
    /\ ncalls < MaxCalls
    /\ out' = DoStatus(State)
    /\ lastcmd' = [cmd |-> "status", arg |-> <<>>]
    /\ UNCHANGED <<words, constraints>>
    /\ Snapshot

do_possible ==
    /\ ncalls < MaxCalls
    /\ out' = DoPossible(State)
    /\ lastcmd' = [cmd |-> "possible", arg |-> <<>>]
    /\ UNCHANGED <<words, constraints>>
    /\ Snapshot

apply_new_constraint ==
    /\ ncalls < MaxCalls
    /\ \E c \in Constraints :
          \E r \in {DoApply(State, c)} :
              /\ words' = r.st.words
              /\ constraints' = r.st.constraints
              /\ out' = r.out
              /\ lastcmd' = [cmd |-> "apply_new_constraint", arg |-> c]
    /\ Snapshot

do_exit ==
    /\ ncalls < MaxCalls
    /\ out' = DoExit(State)
    /\ lastcmd' = [cmd |-> "exit", arg |-> <<>>]
    /\ UNCHANGED <<words, constraints>>
    /\ Snapshot

do_EOF ==
    /\ ncalls < MaxCalls
    /\ out' = DoExit(State)
    /\ lastcmd' = [cmd |-> "EOF", arg |-> <<>>]
    /\ UNCHANGED <<words, constraints>>
    /\ Snapshot

Next ==
    \/ do_word
    \/ do_status
    \/ do_possible
    \/ do_exit
    \/ do_EOF
    \/ apply_new_constraint

Spec == Init /\ [][Next]_vars

(***************************************************************************)
(* The constructors called directly, on arguments do_word never passes.    *)
(***************************************************************************)
construct ==
    /\ \E type \in ConstraintTypes, index \in Indices, letter \in Letters :
          made' = [called |-> TRUE, type |-> type,
                   index |-> IF type \in PositionalTypes THEN index ELSE 0,
                   letter |-> letter,
                   result |-> Construct(type, index, letter)]
    /\ UNCHANGED <<words, constraints, lastcmd, out, words0, constraints0, ncalls>>

SpecCtor == Init /\ [][construct]_vars

(***************************************************************************)
(* What the properties say about the last command.                         *)
(***************************************************************************)
Range(seq) == {seq[k] : k \in 1..Len(seq)}

LastToks == Split(lastcmd.arg)
LastWord == LastToks[1]
LastHints == LastToks[2]

\* the last command was do_word on one W-letter word and one W-letter hint string
LengthValid ==
    /\ lastcmd.cmd = "word"
    /\ Len(LastToks) = 2
    /\ Len(LastWord) = W
    /\ Len(LastHints) = W

\* the last command was a do_word that raised nothing
ValidGuess == LengthValid /\ out.exc = ""

\* the constraint the last (valid) do_word appended for position k in 1..W
Appended(k) == constraints[Len(constraints0) + k]

\* the guess's letter at position k in 1..W, case-folded
GuessLetter(k) == Lower(<<LastWord[k]>>)

PresentMarks == {HintGreen, HintYellow}

\* the words of a list that every constraint of a history matches
ClosedForm(dict, history) ==
    SelectSeq(dict, LAMBDA w : \A k \in 1..Len(history) : Matches(history[k], w))

(***************************************************************************)
(* C1: in every reachable state the candidate list is exactly the words of *)
(* the dictionary, in the dictionary's order, that every constraint of the *)
(* history matches.                                                        *)
(***************************************************************************)
C1_ClosedForm == words = ClosedForm(Dictionary, constraints)

\* two valid guesses, each of which removed candidates and left some
C1_Witness ==
    /\ ValidGuess
    /\ Len(constraints) = 2 * W
    /\ words # <<>>
    /\ Len(words) < Len(words0)
    /\ Len(words0) < Len(Dictionary)

(***************************************************************************)
(* C2: in a valid guess where a letter L is green or yellow at position i  *)
(* and grey at a later position j, the constraint appended for j is the    *)
(* not-repeated one: a candidate with exactly one L that the constraints   *)
(* of the positions other than j match stays, and no candidate with two L  *)
(* stays.                                                                  *)
(***************************************************************************)
C2_NotRepeatedAfterPresent ==
    ValidGuess =>
        \A i \in 1..W, j \in 1..W :
            ( /\ i < j
              /\ LastHints[i] \in PresentMarks
              /\ LastHints[j] = HintGrey
              /\ GuessLetter(i) = GuessLetter(j) )
            => /\ Appended(j).type = "LetterNotRepeatedConstraint"
               /\ \A k \in 1..Len(words0) :
                      ( /\ Count(words0[k], GuessLetter(j)) = 1
                        /\ \A m \in (1..W) \ {j} : Matches(Appended(m), words0[k]) )
                      => words0[k] \in Range(words)
               /\ \A k \in 1..Len(words) : Count(words[k], GuessLetter(j)) < 2

(***************************************************************************)
(* C3: a do_word on a W-letter word and W-letter hints that raises at some *)
(* position leaves the candidates and the history as it found them.        *)
(***************************************************************************)
C3_FailedGuessChangesNothing ==
    (LengthValid /\ out.exc = "ValueError")
        => words = words0 /\ constraints = constraints0

(***************************************************************************)
(* C4: after a valid guess the candidates are a sub-list of the candidates *)
(* before it: no more of them, no new one, and none if there were none.    *)
(***************************************************************************)
C4_NonIncreasing ==
    ValidGuess =>
        /\ Len(words) <= Len(words0)
        /\ Range(words) \subseteq Range(words0)
        /\ (words0 = <<>> => words = <<>>)

\* a valid guess made after an earlier narrowing, that removed candidates and left some
C4_Witness ==
    /\ ValidGuess
    /\ Len(words0) < Len(Dictionary)
    /\ Len(words) < Len(words0)
    /\ words # <<>>

(***************************************************************************)
(* C5: giving a valid guess a second time leaves the candidates as the     *)
(* first time left them, while the history grows by W again.               *)
(***************************************************************************)
C5_Idempotent ==
    ValidGuess =>
        LET again == DoWord(State, lastcmd.arg)
        IN  /\ again.out.exc = ""
            /\ again.st.words = words
            /\ Len(again.st.constraints) = Len(constraints) + W

\* a valid guess that left candidates, and one whose second application
\* derives another variant for a grey letter than the first did
C5_Witness ==
    /\ ValidGuess
    /\ words # <<>>
    /\ Len(words) < Len(words0)

C5_WitnessVariantChanges ==
    /\ ValidGuess
    /\ SubSeq(DoWord(State, lastcmd.arg).st.constraints,
              Len(constraints) + 1, Len(constraints) + W)
         # SubSeq(constraints, Len(constraints0) + 1, Len(constraints))

(***************************************************************************)
(* C6: a do_word whose argument is not two tokens, or whose word or hints  *)
(* are not W long, raises and leaves the candidates and the history as it  *)
(* found them.                                                             *)
(***************************************************************************)
C6_MalformedRejected ==
    (lastcmd.cmd = "word" /\ ~LengthValid)
        => /\ out.exc = "ValueError"
           /\ words = words0
           /\ constraints = constraints0

\* a word of 4 letters with hints of 5, given after a guess that narrowed
C6_Witness ==
    /\ lastcmd.cmd = "word"
    /\ Len(LastToks) = 2
    /\ Len(LastWord) = W - 1
    /\ Len(LastHints) = W
    /\ out.exc = "ValueError"
    /\ constraints0 # <<>>
    /\ words0 # Dictionary

(***************************************************************************)
(* C7: in a fresh session, when a valid guess has a letter L grey at one   *)
(* position and green or yellow at another, in either order, a dictionary  *)
(* word with exactly one L that the constraints of the other positions     *)
(* match is still a candidate.                                             *)
(***************************************************************************)
C7_GreyMeansOnceEitherOrder ==
    (ValidGuess /\ constraints0 = <<>>) =>
        \A i \in 1..W, j \in 1..W :
            ( /\ i # j
              /\ LastHints[i] \in PresentMarks
              /\ LastHints[j] = HintGrey
              /\ GuessLetter(i) = GuessLetter(j) )
            => \A k \in 1..Len(words0) :
                   ( /\ Count(words0[k], GuessLetter(j)) = 1
                     /\ \A m \in 1..W :
                           (GuessLetter(m) # GuessLetter(j) \/ LastHints[m] # HintGrey)
                           => Matches(Appended(m), words0[k]) )
                   => words0[k] \in Range(words)

(***************************************************************************)
(* C8: for a grey letter L of a valid guess, the appended constraint is    *)
(* the not-repeated one (matches iff L occurs less than twice) iff the     *)
(* history before it holds a green or yellow constraint for L, and is      *)
(* otherwise the fully-absent one (matches iff L does not occur).          *)
(***************************************************************************)
C8_GreyVariantFollowsHistory ==
    ValidGuess =>
        \A j \in 1..W :
            LastHints[j] = HintGrey =>
                LET before == SubSeq(constraints, 1, Len(constraints0) + j - 1)
                    seen == \E k \in 1..Len(before) :
                                /\ before[k].type \in {"GreenConstraint", "YellowConstraint"}
                                /\ before[k].letter = GuessLetter(j)
                    c == Appended(j)
                IN  /\ c.letter = GuessLetter(j)
                    /\ c.type = IF seen THEN "LetterNotRepeatedConstraint"
                                        ELSE "NoLetterPresentConstraint"
                    /\ \A k \in 1..Len(Dictionary) :
                           Matches(c, Dictionary[k])
                               <=> IF seen THEN Count(Dictionary[k], c.letter) < 2
                                           ELSE Count(Dictionary[k], c.letter) = 0

(***************************************************************************)
(* C9: a guess typed with uppercase letters appends the same constraints   *)
(* and leaves the same candidates as the same guess typed in lowercase.    *)
(***************************************************************************)
C9_CaseInsensitive ==
    LengthValid =>
        LET lowered == DoWord([words |-> words0, constraints |-> constraints0],
                              Line(Lower(LastWord), LastHints))
        IN  /\ lowered.st.constraints = constraints
            /\ lowered.st.words = words

(***************************************************************************)
(* C10: a constructor given a letter that is not exactly one alphabetic    *)
(* character, or (Green, Yellow) an index outside 0..W-1, raises and makes *)
(* no constraint.                                                          *)
(***************************************************************************)
OneLetter(letter) == Len(letter) = 1 /\ letter[1] \in Range(AsciiLetters)

C10_ConstructorsValidate ==
    ( /\ made.called
      /\ \/ ~OneLetter(made.letter)
         \/ (made.type \in PositionalTypes /\ made.index \notin 0..(W - 1)) )
        => ~made.result.ok

(***************************************************************************)
(* C11: a do_word on a W-letter word of letters only and W-letter hints    *)
(* holding characters other than g, y and _ raises the invalid-hint error  *)
(* naming the leftmost such position (counted from 0) and its character.   *)
(***************************************************************************)
HintSymbols == {HintGreen, HintYellow, HintGrey}

\* the positions, counted from 0, whose hint character is no hint symbol
InvalidHintPositions == {k \in 0..(W - 1) : LastHints[k + 1] \notin HintSymbols}

Leftmost(ps) == CHOOSE k \in ps : \A m \in ps : k <= m

AllAlphabetic(word) == \A k \in 1..Len(word) : word[k] \in Range(AsciiLetters)

C11_LeftmostInvalidHint ==
    (LengthValid /\ AllAlphabetic(LastWord) /\ InvalidHintPositions # {})
        => /\ out.exc = "ValueError"
           /\ out.msg = "invalid hint type"
           /\ out.pos = Leftmost(InvalidHintPositions)
           /\ out.tok = <<LastHints[out.pos + 1]>>

\* hints with two invalid characters, the first of them not at position 0
C11_Witness ==
    /\ LengthValid
    /\ AllAlphabetic(LastWord)
    /\ Cardinality(InvalidHintPositions) > 1
    /\ out.exc = "ValueError"
    /\ out.pos > 0

(***************************************************************************)
(* C12: the history is append-only.  Every command leaves the history it   *)
(* found as a prefix of the history; a valid guess appends exactly W       *)
(* constraints, the k-th being the one derived for position k from the     *)
(* history as extended by the constraints of the positions before k, and   *)
(* the candidates are those that were there and that all W match.          *)
(***************************************************************************)
IsPrefix(s, t) == Len(s) <= Len(t) /\ SubSeq(t, 1, Len(s)) = s

\* the history as the last do_word had it when it derived position k in 1..W
HistoryAt(k) == SubSeq(constraints, 1, Len(constraints0) + k - 1)

C12_AppendOnly ==
    /\ IsPrefix(constraints0, constraints)
    /\ ValidGuess =>
          /\ Len(constraints) = Len(constraints0) + W
          /\ \A k \in 1..W :
                LET r == DeriveConstraint(HistoryAt(k), k - 1,
                                          <<LastWord[k]>>, LastHints[k])
                IN  r.ok /\ Appended(k) = r.c
          /\ words = SelectSeq(words0,
                               LAMBDA w : \A k \in 1..W : Matches(Appended(k), w))

\* a valid guess on a history that is not empty, one of whose grey letters
\* is not-repeated because of a constraint of an earlier position of the guess
C12_Witness ==
    /\ ValidGuess
    /\ constraints0 # <<>>
    /\ \E j \in 1..W :
          /\ Appended(j).type = "LetterNotRepeatedConstraint"
          /\ ~SeenPresent(constraints0, <<LastWord[j]>>)

(***************************************************************************)
(* C13: in every reachable state the candidates are a subsequence of the   *)
(* word list the shell was made with (no word added, order kept), and a    *)
(* word the list holds several times is a candidate as many times or not   *)
(* at all.                                                                 *)
(***************************************************************************)
\* s is t with some elements left out: s is matched greedily along t
RECURSIVE IsSubsequenceFrom(_, _, _, _)
IsSubsequenceFrom(s, t, i, j) ==
    IF i > Len(s) THEN TRUE
    ELSE IF j > Len(t) THEN FALSE
    ELSE IF s[i] = t[j] THEN IsSubsequenceFrom(s, t, i + 1, j + 1)
    ELSE IsSubsequenceFrom(s, t, i, j + 1)

IsSubsequence(s, t) == IsSubsequenceFrom(s, t, 1, 1)

Occurrences(seq, x) == Cardinality({k \in 1..Len(seq) : seq[k] = x})

C13_StableSubsequence ==
    /\ IsSubsequence(words, Dictionary)
    /\ \A w \in Range(Dictionary) :
          Occurrences(words, w) \in {0, Occurrences(Dictionary, w)}

\* after a valid guess fewer candidates, among them a word twice with
\* another word between its two occurrences
C13_Witness ==
    /\ ValidGuess
    /\ Len(words) < Len(Dictionary)
    /\ \E i \in 1..Len(words), j \in 1..Len(words) :
          i + 1 < j /\ words[i] = words[j] /\ words[i + 1] # words[i]

(***************************************************************************)
(* C14: do_status and do_possible leave the candidates and the history as  *)
(* they found them and raise nothing; do_status prints the number of       *)
(* candidates, do_possible prints the candidates, in order, one per line.  *)
(***************************************************************************)
C14_ReadOnlyViews ==
    /\ lastcmd.cmd \in {"status", "possible"} =>
          /\ words = words0
          /\ constraints = constraints0
          /\ out.exc = ""
    /\ lastcmd.cmd = "status" => out.count = Len(words)
    /\ lastcmd.cmd = "possible" =>
          /\ Split(out.text) = words
          /\ out.text = Join(words, Newline) \o Newline

\* do_possible after a guess that removed some candidates and left several
C14_Witness ==
    /\ lastcmd.cmd = "possible"
    /\ Len(words) > 1
    /\ Len(words) < Len(Dictionary)

(***************************************************************************)
(* C15: a do_word on a W-letter word and W-letter hints that raises at     *)
(* position k (the leftmost position whose hint is no hint symbol or whose *)
(* letter no constructor accepts) has appended exactly the constraints of  *)
(* the positions before k and applied them, so the candidates are still    *)
(* the words of the word list that the whole history matches.              *)
(***************************************************************************)
\* the positions, counted from 0, at which the last do_word cannot build a constraint
FailingPositions ==
    {k \in 0..(W - 1) :
        \/ LastHints[k + 1] \notin HintSymbols
        \/ ~IsSubstr(<<LastWord[k + 1]>>, AsciiLetters)}

C15_FailedGuessAppliesPrefix ==
    (LengthValid /\ out.exc = "ValueError") =>
        /\ FailingPositions # {}
        /\ LET k == Leftmost(FailingPositions)
           IN  /\ Len(constraints) = Len(constraints0) + k
               /\ IsPrefix(constraints0, constraints)
               /\ \A m \in 1..k :
                     LET r == DeriveConstraint(HistoryAt(m), m - 1,
                                               <<LastWord[m]>>, LastHints[m])
                     IN  r.ok /\ Appended(m) = r.c
               /\ words = SelectSeq(words0,
                                    LAMBDA w : \A m \in 1..k : Matches(Appended(m), w))
        /\ words = ClosedForm(Dictionary, constraints)

\* a guess that raised after it had removed candidates, given after an
\* earlier guess that had itself raised part of the way
C15_Witness ==
    /\ LengthValid
    /\ out.exc = "ValueError"
    /\ Len(constraints) > Len(constraints0)
    /\ Len(words) < Len(words0)
    /\ constraints0 # <<>>
    /\ Len(constraints0) < W

(***************************************************************************)
(* C16: from a fresh shell, two valid guesses A then B leave the same      *)
(* candidates as B then A, whenever no letter (case-folded) that is grey   *)
(* in one of the two guesses is green or yellow in the other.              *)
(***************************************************************************)
Fresh == [words |-> Dictionary, constraints |-> <<>>]

\* the letters, case-folded, that a command line marks with one of marks
Marked(arg, marks) ==
    LET toks == Split(arg)
    IN  {Lower(<<toks[1][k]>>) : k \in {m \in 1..W : toks[2][m] \in marks}}

\* no letter grey in one of the two guesses is green or yellow in the other
Independent(a, b) ==
    /\ Marked(a, {HintGrey}) \cap Marked(b, PresentMarks) = {}
    /\ Marked(b, {HintGrey}) \cap Marked(a, PresentMarks) = {}

\* the command lines that, given to a fresh shell as a valid guess, leave the
\* state the last command found
FirstGuesses ==
    {a \in Args :
        LET r == DoWord(Fresh, a)
        IN  /\ r.out.exc = ""
            /\ r.st.words = words0
            /\ r.st.constraints = constraints0}

\* the candidates after the last guess and then guess a, from a fresh shell
Swapped(a) == DoWord(DoWord(Fresh, lastcmd.arg).st, a).st.words

C16_OrderIndependent ==
    (ncalls = 2 /\ ValidGuess) =>
        \A a \in FirstGuesses : Independent(a, lastcmd.arg) => Swapped(a) = words

\* two independent guesses of different words, each of which removed
\* candidates, with candidates left
C16_Witness ==
    /\ ncalls = 2
    /\ ValidGuess
    /\ words # <<>>
    /\ Len(words) < Len(words0)
    /\ Len(words0) < Len(Dictionary)
    /\ \E a \in FirstGuesses :
          /\ Independent(a, lastcmd.arg)
          /\ Lower(Split(a)[1]) # Lower(LastWord)

\* two guesses that are not independent, and the order of which matters
C16_OrderMatters ==
    /\ ncalls = 2
    /\ ValidGuess
    /\ \E a \in FirstGuesses :
          /\ ~Independent(a, lastcmd.arg)
          /\ Swapped(a) # words

====
